---- MODULE Spec2Model ----
(***************************************************************************)
(* Model of the "Dockerized node" module of zksync-cli (SetupModule):      *)
(* the install sequence, the memoized latest revision, and the readiness   *)
(* poll waitForContractsDeployment, a setInterval whose async callback     *)
(* probes zks_getMainContract and then asks isRunning.                     *)
(*                                                                         *)
(* JavaScript runs one continuation at a time: every action below is one   *)
(* continuation, from the completion of an awaited operation up to the     *)
(* next await, together with the promise reactions it makes runnable.      *)
(***************************************************************************)
EXTENDS Integers, Sequences, FiniteSets

\* ---------------------------------------------------------------- bounds
MaxCalls    == 2   \* install/update calls made in one process
MaxTicks    == 2   \* timer ticks one readiness poll may fire
MaxServices == 1   \* entries in one docker compose status snapshot

\* ------------------------------------------------------------ constants
retryTime == 1000  \* `const retryTime = 1000`, the setInterval period in ms

Calls == 1..MaxCalls
Ticks == 1..MaxTicks

NoVersion == "undefined"
Hashes    == {"h1", "h2"}      \* what git.getLatestCommitHash may answer
Persisted == {NoVersion, "h0"} \* moduleConfig.version found at start-up

\* The ways one probe of zks_getMainContract can end.
\*   neterr  : fetch rejects (transport error)
\*   notok   : response.ok is false
\*   badjson : response.ok, response.json() rejects
\*   falsy   : response.ok, data.result absent or falsy
\*   good    : response.ok, data.result truthy
ProbeResponses == {"neterr", "notok", "badjson", "falsy", "good"}

\* A status snapshot is a sequence of isRunning flags, one per service.
RECURSIVE SeqsUpTo(_)
SeqsUpTo(n) == IF n = 0 THEN {<<>>}
               ELSE LET S == SeqsUpTo(n - 1)
                    IN  S \cup {Append(s, b) : s \in {t \in S : Len(t) = n - 1}, b \in BOOLEAN}
Snapshots == SeqsUpTo(MaxServices)

\* What docker.compose.status can settle with: a snapshot, or a rejection.
StatusResults == {[failed |-> FALSE, services |-> s] : s \in Snapshots}
                   \cup {[failed |-> TRUE, services |-> <<>>]}

\* What a caller of a lifecycle method observes: the method, what the file
\* system and the container runtime answered, and what the method returned.
NoStatus == [failed |-> FALSE, services |-> <<>>]
Returned(op, folder, status, result) ==
  [op |-> op, folderExists |-> folder, status |-> status, result |-> result]
NoOp == Returned("none", FALSE, NoStatus, "none")
Bool(b) == IF b THEN "true" ELSE "false"

VARIABLES
  latestVersion, \* the module-level `let latestVersion`
  lookups,       \* calls of git.getLatestCommitHash issued so far
  version,       \* moduleConfig.version, the persisted InstalledVersion
  pc,            \* per install call: where its async function is suspended
  lv,            \* per install call: its local `const latestVersion`
  err,           \* per install call: what its caller received
  promise,       \* per install call: the promise of waitForContractsDeployment
  interval,      \* per install call: TRUE while the setInterval timer is armed
  spinner,       \* per install call: the ora spinner
  elapsedTime,   \* per install call: `let elapsedTime`
  tickPc,        \* per install call and tick: where the async callback is
  tickResolved,  \* per install call: the ticks that took the success branch
  failedStep,    \* per install call: the awaited step that was rejected
  crashed,       \* the process was terminated by an unhandled rejection
  probeSeq,      \* the probe answers fixed in advance (<<>>: chosen on receipt)
  lastOp         \* the last lifecycle query or command and what it returned

vars == <<latestVersion, lookups, version, pc, lv, err, promise, interval,
          spinner, elapsedTime, tickPc, tickResolved, failedStep, crashed,
          probeSeq, lastOp>>

\* Everything the module itself holds: all but the record of what a caller saw.
moduleVars == <<latestVersion, lookups, version, pc, lv, err, promise, interval,
                spinner, elapsedTime, tickPc, tickResolved, failedStep, crashed,
                probeSeq>>

installVars == <<latestVersion, lookups, version, pc, lv, err, failedStep>>
pollVars    == <<promise, interval, spinner, elapsedTime, tickPc, tickResolved>>

\* ------------------------------------------------------------- helpers
\* isRunning(): some(({isRunning}) => isRunning) over the status snapshot.
isRunning_every(snapshot) == \A i \in 1..Len(snapshot) : snapshot[i]
isRunning(snapshot) == \E i \in 1..Len(snapshot) : snapshot[i]

\* isInstalled(): false without the git folder (the runtime is then not even
\* asked), otherwise whether the status snapshot has any entry.
isInstalled_anyRunning(folderExists, snapshot) == folderExists /\ isRunning(snapshot)
isInstalled(folderExists, snapshot) ==
  IF ~folderExists THEN FALSE ELSE Len(snapshot) # 0

\* The ticks whose async callback has started and not yet run to its end.
\* (updateSpinner only rewrites the spinner text and is left out.)
InFlight(c)  == {k \in Ticks : tickPc[c][k] \in {"fetch", "json", "status"}}
\* The number of times the timer has called the callback.
TicksFired(c) == Cardinality({k \in Ticks : tickPc[c][k] # "none"})

\* The install call is between its start and its end; it has returned or thrown.
Active(c) == pc[c] \in {"lookup", "clone", "up", "wait"}
Ended(c)  == pc[c] \in {"done", "failed"}

\* The process right after the module was constructed: nothing memoized, no
\* install call made, whatever version an earlier process persisted.
Fresh ==
  /\ latestVersion = NoVersion
  /\ lookups = 0
  /\ version \in Persisted
  /\ pc = [c \in Calls |-> "idle"]
  /\ lv = [c \in Calls |-> NoVersion]
  /\ err = [c \in Calls |-> "none"]
  /\ promise = [c \in Calls |-> "none"]
  /\ interval = [c \in Calls |-> FALSE]
  /\ spinner = [c \in Calls |-> "none"]
  /\ elapsedTime = [c \in Calls |-> 0]
  /\ tickPc = [c \in Calls |-> [k \in Ticks |-> "none"]]
  /\ tickResolved = [c \in Calls |-> {}]
  /\ failedStep = [c \in Calls |-> "none"]
  /\ crashed = FALSE
  /\ lastOp = NoOp

Init ==
  /\ Fresh
  /\ probeSeq = <<>>

\* ------------------------------------------------- pieces of the code
\* getLatestVersion, line 55: `if (!latestVersion)`.
NeedsLookup_always(cached) == TRUE
NeedsLookup(cached) == cached = NoVersion

\* `await x` in install: a rejected x throws out of install.
AwaitThrows_swallowed(result) == FALSE
AwaitThrows(result) == result = "error"

\* The try block of the tick, lines 85-115: a rejected fetch and a rejected
\* response.json() both land in the catch block, which only logs.
Caught_fetchOnly(resp) == resp = "neterr"
Caught(resp) == resp \in {"neterr", "badjson"}

\* Lines 99-101: `if (response.ok)` and then `if (data.result)`.
ResponseOk(resp) == resp \in {"badjson", "falsy", "good"}
ProbeConfirms_anyBody(resp) == resp \in {"falsy", "good"}
ProbeConfirms(resp) == resp = "good"

\* Line 83: `elapsedTime += retryTime`.
NextElapsed_restart(elapsed) == retryTime
NextElapsed(elapsed) == elapsed + retryTime

\* Line 81: a promise keeps its first settlement; later resolve/reject calls
\* do nothing.
Settle(p, outcome) == IF p = "pending" THEN outcome ELSE p

\* Line 133: `await this.waitForContractsDeployment()` lets install go on to
\* setModuleConfig only when the promise is fulfilled.
InstallContinues_always(outcome) == TRUE
InstallContinues(outcome) == outcome = "resolved"

\* Lines 134-137: setModuleConfig({...moduleConfig, version: latestVersion}).
setModuleConfig_keepsOld(config, resolved) == config
setModuleConfig(config, resolved) == resolved

\* The answers a probe issued at tick k can get.
ProbeAnswers(k) == IF probeSeq = <<>> THEN ProbeResponses ELSE {probeSeq[k]}

\* The reaction of install (line 133 onwards) to its wait promise going from
\* pending to `outcome`; it runs as a microtask of the settling continuation.
AfterWait(c, outcome) ==
  IF promise[c] # "pending"
  THEN UNCHANGED <<version, pc, err>>
  ELSE IF InstallContinues(outcome)
       THEN /\ version' = setModuleConfig(version, lv[c])
            /\ pc' = [pc EXCEPT ![c] = "done"]
            /\ UNCHANGED err
       ELSE /\ pc' = [pc EXCEPT ![c] = "failed"]
            /\ err' = [err EXCEPT ![c] = "DeploymentFailed"]
            /\ UNCHANGED version

\* ------------------------------------------------------------- install
\* install() up to its first suspension: getLatestVersion either starts the
\* remote lookup or returns the memoized value, after which cloneRepo starts.
InstallCall(c) ==
  /\ ~crashed
  /\ pc[c] = "idle"
  /\ IF NeedsLookup(latestVersion)
     THEN /\ lookups' = lookups + 1
          /\ pc' = [pc EXCEPT ![c] = "lookup"]
          /\ UNCHANGED lv
     ELSE /\ lv' = [lv EXCEPT ![c] = latestVersion]
          /\ pc' = [pc EXCEPT ![c] = "clone"]
          /\ UNCHANGED lookups
  /\ UNCHANGED <<latestVersion, version, err, failedStep, crashed, probeSeq, lastOp>>
  /\ UNCHANGED pollVars

\* git.getLatestCommitHash settles (line 56).
LookupComplete(c) ==
  /\ ~crashed
  /\ pc[c] = "lookup"
  /\ \E res \in Hashes \cup {"error"} :
       /\ failedStep' = [failedStep EXCEPT ![c] = IF res = "error" THEN "lookup" ELSE @]
       /\ IF AwaitThrows(res)
          THEN /\ pc' = [pc EXCEPT ![c] = "failed"]
               /\ err' = [err EXCEPT ![c] = "FetchError"]
               /\ UNCHANGED <<latestVersion, lv>>
          ELSE /\ latestVersion' = res
               /\ lv' = [lv EXCEPT ![c] = res]
               /\ pc' = [pc EXCEPT ![c] = "clone"]
               /\ UNCHANGED err
  /\ UNCHANGED <<lookups, version, crashed, probeSeq, lastOp>>
  /\ UNCHANGED pollVars

\* git.cloneRepo settles (line 130); on success docker.compose.up starts.
CloneComplete(c) ==
  /\ ~crashed
  /\ pc[c] = "clone"
  /\ \E res \in {"ok", "error"} :
       /\ failedStep' = [failedStep EXCEPT ![c] = IF res = "error" THEN "clone" ELSE @]
       /\ IF AwaitThrows(res)
          THEN /\ pc' = [pc EXCEPT ![c] = "failed"]
               /\ err' = [err EXCEPT ![c] = "FetchError"]
          ELSE /\ pc' = [pc EXCEPT ![c] = "up"]
               /\ UNCHANGED err
  /\ UNCHANGED <<latestVersion, lookups, version, lv, crashed, probeSeq, lastOp>>
  /\ UNCHANGED pollVars

\* docker.compose.up settles (line 131); on success
\* waitForContractsDeployment runs up to the return of its promise.
UpComplete(c) ==
  /\ ~crashed
  /\ pc[c] = "up"
  /\ \E res \in {"ok", "error"} :
       /\ failedStep' = [failedStep EXCEPT ![c] = IF res = "error" THEN "up" ELSE @]
       /\ IF AwaitThrows(res)
          THEN /\ pc' = [pc EXCEPT ![c] = "failed"]
               /\ err' = [err EXCEPT ![c] = "RuntimeError"]
               /\ UNCHANGED pollVars
          ELSE /\ pc' = [pc EXCEPT ![c] = "wait"]
               /\ elapsedTime' = [elapsedTime EXCEPT ![c] = 0]
               /\ spinner' = [spinner EXCEPT ![c] = "spinning"]
               /\ promise' = [promise EXCEPT ![c] = "pending"]
               /\ interval' = [interval EXCEPT ![c] = TRUE]
               /\ UNCHANGED <<err, tickPc, tickResolved>>
  /\ UNCHANGED <<latestVersion, lookups, version, lv, crashed, probeSeq, lastOp>>

\* ------------------------------------------- waitForContractsDeployment
\* The timer fires (line 82): elapsedTime grows and the probe is sent.  The
\* timer does not wait for the callbacks it started earlier.
TimerFire(c) ==
  /\ ~crashed
  /\ interval[c]
  /\ TicksFired(c) < MaxTicks
  /\ elapsedTime' = [elapsedTime EXCEPT ![c] = NextElapsed(@)]
  /\ tickPc' = [tickPc EXCEPT ![c][TicksFired(c) + 1] = "fetch"]
  /\ UNCHANGED <<promise, interval, spinner, tickResolved, crashed, probeSeq, lastOp>>
  /\ UNCHANGED installVars

\* fetch settles (line 86): a rejection is caught, a non-OK status only
\* refreshes the spinner; both go on to the isRunning query.  An OK response
\* starts response.json().
FetchComplete(c, k) ==
  /\ ~crashed
  /\ tickPc[c][k] = "fetch"
  /\ \E resp \in ProbeAnswers(k) :
       IF resp = "neterr"
       THEN IF Caught(resp)
            THEN /\ tickPc' = [tickPc EXCEPT ![c][k] = "status"]
                 /\ UNCHANGED crashed
            ELSE /\ tickPc' = [tickPc EXCEPT ![c][k] = "escaped"]
                 /\ crashed' \in BOOLEAN
       ELSE /\ tickPc' = [tickPc EXCEPT ![c][k] =
                             IF ResponseOk(resp) THEN "json" ELSE "status"]
            /\ UNCHANGED crashed
  /\ UNCHANGED <<promise, interval, spinner, elapsedTime, tickResolved, probeSeq, lastOp>>
  /\ UNCHANGED installVars

\* response.json() settles (line 100).  A truthy result clears the timer,
\* marks the spinner and resolves; the callback then goes on to isRunning.
JsonComplete(c, k) ==
  /\ ~crashed
  /\ tickPc[c][k] = "json"
  /\ \E resp \in ProbeAnswers(k) \cap {"badjson", "falsy", "good"} :
       IF resp = "badjson"
       THEN /\ IF Caught(resp)
               THEN /\ tickPc' = [tickPc EXCEPT ![c][k] = "status"]
                    /\ UNCHANGED crashed
               ELSE /\ tickPc' = [tickPc EXCEPT ![c][k] = "escaped"]
                    /\ crashed' \in BOOLEAN
            /\ UNCHANGED <<promise, interval, spinner, tickResolved>>
            /\ UNCHANGED <<version, pc, err>>
       ELSE IF ProbeConfirms(resp)
            THEN /\ interval' = [interval EXCEPT ![c] = FALSE]
                 /\ spinner' = [spinner EXCEPT ![c] = "succeed"]
                 /\ promise' = [promise EXCEPT ![c] = Settle(@, "resolved")]
                 /\ tickResolved' = [tickResolved EXCEPT ![c] = @ \cup {k}]
                 /\ tickPc' = [tickPc EXCEPT ![c][k] = "status"]
                 /\ AfterWait(c, "resolved")
                 /\ UNCHANGED crashed
            ELSE /\ tickPc' = [tickPc EXCEPT ![c][k] = "status"]
                 /\ UNCHANGED <<promise, interval, spinner, tickResolved, crashed>>
                 /\ UNCHANGED <<version, pc, err>>
  /\ UNCHANGED <<latestVersion, lookups, lv, failedStep, elapsedTime, probeSeq, lastOp>>

\* docker.compose.status settles inside isRunning (lines 117-122, 141).  A
\* snapshot with no running service clears the timer, marks the spinner and
\* rejects.  A failed status query rejects the callback's own promise, which
\* nobody handles: the runtime either only warns or terminates the process.
StatusComplete(c, k) ==
  /\ ~crashed
  /\ tickPc[c][k] = "status"
  /\ \E res \in StatusResults :
       IF res.failed
       THEN /\ tickPc' = [tickPc EXCEPT ![c][k] = "threw"]
            /\ crashed' \in BOOLEAN
            /\ UNCHANGED <<promise, interval, spinner, version, pc, err>>
       ELSE IF isRunning(res.services)
            THEN /\ tickPc' = [tickPc EXCEPT ![c][k] = "finished"]
                 /\ UNCHANGED <<promise, interval, spinner, version, pc, err, crashed>>
            ELSE /\ interval' = [interval EXCEPT ![c] = FALSE]
                 /\ spinner' = [spinner EXCEPT ![c] = "fail"]
                 /\ promise' = [promise EXCEPT ![c] = Settle(@, "rejected")]
                 /\ tickPc' = [tickPc EXCEPT ![c][k] = "stopped"]
                 /\ AfterWait(c, "rejected")
                 /\ UNCHANGED crashed
  /\ UNCHANGED <<latestVersion, lookups, lv, failedStep, elapsedTime, tickResolved,
                 probeSeq, lastOp>>

\* --------------------------------------------- lifecycle pass-throughs
\* Each method below awaits one command of the container runtime (or none)
\* and hands its outcome to the caller; none of them touches the module's
\* configuration, the memoized revision or a running install.
\* start(): docker.compose.up.
Start ==
  /\ ~crashed
  /\ \E res \in {"ok", "error"} : lastOp' = Returned("start", FALSE, NoStatus, res)
  /\ UNCHANGED moduleVars

\* stop(): docker.compose.stop.
Stop ==
  /\ ~crashed
  /\ \E res \in {"ok", "error"} : lastOp' = Returned("stop", FALSE, NoStatus, res)
  /\ UNCHANGED moduleVars

\* clean(): docker.compose.down.
Clean_clearsVersion ==
  /\ ~crashed
  /\ \E res \in {"ok", "error"} : lastOp' = Returned("clean", FALSE, NoStatus, res)
  /\ version' = NoVersion
  /\ UNCHANGED <<latestVersion, lookups, pc, lv, err, promise, interval, spinner,
                 elapsedTime, tickPc, tickResolved, failedStep, crashed, probeSeq>>
Clean ==
  /\ ~crashed
  /\ \E res \in {"ok", "error"} : lastOp' = Returned("clean", FALSE, NoStatus, res)
  /\ UNCHANGED moduleVars

\* getLogs(): docker.compose.logs.
GetLogs ==
  /\ ~crashed
  /\ \E res \in {"logs", "error"} : lastOp' = Returned("getLogs", FALSE, NoStatus, res)
  /\ UNCHANGED moduleVars

\* getStartupInfo(): formats the constants of nodeInfo and a path under the
\* git folder; no I/O, nothing read from or written to the configuration.
GetStartupInfo ==
  /\ ~crashed
  /\ lastOp' = Returned("getStartupInfo", FALSE, NoStatus, "info")
  /\ UNCHANGED moduleVars

\* isRunning() called as a query: docker.compose.status, then some(...).
IsRunning ==
  /\ ~crashed
  /\ \E st \in StatusResults :
       lastOp' = Returned("isRunning", FALSE, st,
                          IF st.failed THEN "error" ELSE Bool(isRunning(st.services)))
  /\ UNCHANGED moduleVars

\* isInstalled(): fileOrDirExists, then docker.compose.status only if it does.
IsInstalled ==
  /\ ~crashed
  /\ \E folder \in BOOLEAN :
       \E st \in (IF folder THEN StatusResults ELSE {NoStatus}) :
         lastOp' = Returned("isInstalled", folder, st,
                            IF st.failed THEN "error"
                            ELSE Bool(isInstalled(folder, st.services)))
  /\ UNCHANGED moduleVars

Lifecycle ==
  \/ Start
  \/ Stop
  \/ Clean
  \/ GetLogs
  \/ GetStartupInfo
  \/ IsRunning
  \/ IsInstalled

\* ------------------------------------------------------ specifications
Step(c) ==
  \/ InstallCall(c)
  \/ LookupComplete(c)
  \/ CloneComplete(c)
  \/ UpComplete(c)
  \/ TimerFire(c)
  \/ \E k \in Ticks : FetchComplete(c, k)
  \/ \E k \in Ticks : JsonComplete(c, k)
  \/ \E k \in Ticks : StatusComplete(c, k)

\* Any number of install/update calls up to MaxCalls, overlapping freely.
Next == \E c \in Calls : Step(c)

Spec == Init /\ [][Next]_vars

\* One install call whose probe answers are fixed in advance.
InitPoll ==
  /\ Fresh
  /\ probeSeq \in [Ticks -> ProbeResponses]

NextPoll == Step(1)

SpecPoll == InitPoll /\ [][NextPoll]_vars

\* install called twice in sequence: the caller awaits the first call before
\* it makes the second.  (The ticks a finished call left behind go on.)
InstallInSequence(c) ==
  /\ \A d \in Calls : d < c => Ended(d)
  /\ InstallCall(c)

NextSeq ==
  \E c \in {1, 2} :
    \/ InstallInSequence(c)
    \/ LookupComplete(c)
    \/ CloneComplete(c)
    \/ UpComplete(c)
    \/ TimerFire(c)
    \/ \E k \in Ticks : FetchComplete(c, k)
    \/ \E k \in Ticks : JsonComplete(c, k)
    \/ \E k \in Ticks : StatusComplete(c, k)

SpecSeq == Init /\ [][NextSeq]_vars

\* One install call, with the lifecycle methods called at any moment before,
\* during and after it.
NextOps == Step(1) \/ Lifecycle

SpecOps == Init /\ [][NextOps]_vars

\* The event loop runs every timer and every completion that is due.
FairPoll ==
  /\ SpecPoll
  /\ WF_vars(TimerFire(1))
  /\ \A k \in Ticks : WF_vars(FetchComplete(1, k))
  /\ \A k \in Ticks : WF_vars(JsonComplete(1, k))
  /\ \A k \in Ticks : WF_vars(StatusComplete(1, k))

\* ------------------------------------------------- observations used below
\* Tick k has classified its probe (it is at, or past, the isRunning query).
Classified(c, k) == tickPc[c][k] \in {"status", "finished", "stopped", "threw", "escaped"}

\* Tick k got a success status with a truthy result.
GotGood(c, k) == Classified(c, k) /\ probeSeq[k] = "good"

\* Some isRunning check of the wait reported false, or its status query failed.
StoppedSeen(c)  == \E k \in Ticks : tickPc[c][k] = "stopped"
StatusFailed(c) == \E k \in Ticks : tickPc[c][k] = "threw"

\* ------------------------------------------------------------------ C1
\* C1: when a success response with a truthy result is among the probe
\* answers and every isRunning check reports true, the wait is eventually
\* resolved; and it is never resolved unless some tick has received such a
\* response.
C1_ResolvesOnFirstGood ==
  /\ [](promise[1] = "resolved" => \E k \in Ticks : GotGood(1, k))
  /\ ((promise[1] = "pending" /\ \E k \in Ticks : probeSeq[k] = "good")
        ~> (promise[1] = "resolved" \/ StoppedSeen(1) \/ StatusFailed(1)))

\* A not-OK answer, then a falsy result, then a truthy one at the last tick,
\* the node running throughout: resolved, and the earlier ticks did not end it.
C1_Witness ==
  /\ probeSeq[MaxTicks] = "good"
  /\ \A k \in 1..(MaxTicks - 1) : probeSeq[k] \in {"notok", "falsy"} /\ tickPc[1][k] = "finished"
  /\ tickPc[1][MaxTicks] = "finished"
  /\ promise[1] = "resolved"

\* ------------------------------------------------------------------ C2
\* C2: a tick whose isRunning check reported false leaves the wait failed
\* with the environment-stopped failure, whatever its probe returned.
C2_StoppedAlwaysFails ==
  \A k \in Ticks :
    tickPc[1][k] = "stopped" => (promise[1] = "rejected" /\ err[1] = "DeploymentFailed")

\* ------------------------------------------------------------------ C3
\* C3: one invocation never produces both outcomes: the success branch
\* (spinner.succeed, resolve) and the failure branch (spinner.fail, reject)
\* are never both taken, and an outcome is produced only by a settled wait.
C3_OneOutcome ==
  /\ ~(tickResolved[1] # {} /\ StoppedSeen(1))
  /\ (promise[1] = "pending" => (tickResolved[1] = {} /\ ~StoppedSeen(1)))

\* ------------------------------------------------------------------ C5
\* C5: at most one tick is in progress at any time.
C5_TicksSequential == Cardinality(InFlight(1)) <= 1

\* ------------------------------------------------------------------ C7
\* C7: a status query that fails inside a tick ends the install call with
\* that runtime failure.
C7_StatusFailureSurfaces ==
  \A k \in Ticks :
    tickPc[1][k] = "threw" => (pc[1] = "failed" /\ err[1] = "RuntimeError")

\* ------------------------------------------------------------------ C4
\* C4: the persisted version changes exactly in the step in which a call's
\* readiness wait is fulfilled, and it becomes the revision that call
\* resolved; every other step, failures included, leaves it as it was.
C4_VersionIffWaitSucceeded ==
  [][ /\ (version' # version =>
            \E c \in Calls : promise[c] = "pending" /\ promise'[c] = "resolved")
      /\ \A c \in Calls :
            (promise[c] = "pending" /\ promise'[c] = "resolved") =>
              (version' = lv[c] /\ lv[c] \in Hashes /\ pc'[c] = "done") ]_vars

\* An install over a previously persisted "h0" whose wait was fulfilled.
C4_Witness ==
  /\ pc[1] = "done"
  /\ promise[1] = "resolved"
  /\ version = lv[1]
  /\ version \in Hashes

\* ------------------------------------------------------------------ C6
\* C6: a call whose revision lookup, clone or compose-up was rejected has
\* ended with that failure and has never started the readiness poll: no
\* promise, no timer, no tick, no probe, no status query.
C6_FailedStepAborts ==
  \A c \in Calls :
    failedStep[c] # "none" =>
      /\ pc[c] = "failed"
      /\ err[c] = (IF failedStep[c] = "up" THEN "RuntimeError" ELSE "FetchError")
      /\ promise[c] = "none"
      /\ ~interval[c]
      /\ elapsedTime[c] = 0
      /\ \A k \in Ticks : tickPc[c][k] = "none"

\* compose-up was rejected after a successful lookup and clone.
C6_Witness ==
  /\ failedStep[1] = "up"
  /\ pc[1] = "failed"
  /\ lv[1] \in Hashes

\* ------------------------------------------------------------------ C8
\* C8: the wait leaves the pending state only after a tick received a truthy
\* result or an isRunning check reported false; while neither has happened
\* and no status query has failed, whatever the probes returned, the wait is
\* pending, its timer is armed and the next tick can fire.
C8_BadProbesNeverEnd ==
  \A c \in Calls :
    promise[c] # "none" =>
      /\ (promise[c] # "pending" => ((\E k \in Ticks : GotGood(c, k)) \/ StoppedSeen(c)))
      /\ ((~(\E k \in Ticks : GotGood(c, k)) /\ ~StoppedSeen(c) /\ ~StatusFailed(c)) =>
            /\ promise[c] = "pending"
            /\ pc[c] = "wait"
            /\ interval[c]
            /\ ~crashed
            /\ (TicksFired(c) < MaxTicks => ENABLED TimerFire(c)))

\* One probe of every failing kind has been classified, the node is still
\* running, and the wait is still pending.
C8_Witness ==
  /\ promise[1] = "pending"
  /\ probeSeq[1] = "badjson"
  /\ probeSeq[2] = "neterr"
  /\ tickPc[1][1] = "finished"
  /\ tickPc[1][2] = "finished"

\* ------------------------------------------------------------------ C9
\* C9: at most one install call is in progress at any time.
C9_SingleFlight == Cardinality({c \in Calls : Active(c)}) <= 1

\* ----------------------------------------------------------------- C10
\* C10: the remote revision lookup is issued at most once per process.
C10_LookupAtMostOnce == lookups <= 1

\* ----------------------------------------------------------------- C11
\* C11: start, stop, clean, isRunning, isInstalled, getLogs and
\* getStartupInfo change nothing the module holds, so the persisted version
\* changes only in the step that fulfils an install's readiness wait and
\* keeps the value that install wrote.
C11_LifecycleKeepsConfig ==
  [][ /\ (lastOp' # lastOp => UNCHANGED moduleVars)
      /\ (version' # version =>
            /\ lastOp' = lastOp
            /\ \E c \in Calls : pc[c] = "wait" /\ pc'[c] = "done" /\ version' = lv[c]) ]_vars

\* After a successful install, stop and then clean have run and the version
\* is still the installed one.
C11_Witness ==
  /\ pc[1] = "done"
  /\ version = lv[1]
  /\ version \in Hashes
  /\ lastOp.op = "clean"
  /\ lastOp.result = "ok"

\* ----------------------------------------------------------------- C12
\* C12: when install is called repeatedly in sequence, every call that
\* completes leaves the persisted version equal to the resolved latest
\* revision, and that is the same revision for all of them.
C12_InstallIdempotent ==
  \A c \in Calls :
    (pc[c] = "done" /\ \A d \in Calls : d > c => ~(pc[d] = "done")) =>
      /\ version = lv[c]
      /\ version = latestVersion
      /\ \A d \in Calls : pc[d] = "done" => lv[d] = lv[c]

\* Two installs in sequence both completed; the second reused the memoized
\* revision and wrote the same version again.
C12_Witness ==
  /\ pc[1] = "done"
  /\ pc[2] = "done"
  /\ lookups = 1
  /\ version = lv[2]
  /\ lv[1] = lv[2]

C14_IsInstalledIffFolderAndService ==
  /\ []((lastOp.op = "isInstalled" /\ ~lastOp.status.failed) =>
          /\ lastOp.result \in {"true", "false"}
          /\ (lastOp.result = "true") <=>
                (lastOp.folderExists /\ Len(lastOp.status.services) >= 1)
          /\ (~lastOp.folderExists => lastOp.result = "false"))
  /\ [][(lastOp'.op = "isInstalled" /\ lastOp' # lastOp) => UNCHANGED moduleVars]_vars

\* isInstalled answered true although the only service is stopped.
C14_Witness ==
  /\ lastOp.op = "isInstalled"
  /\ lastOp.folderExists
  /\ lastOp.status.services = <<FALSE>>
  /\ lastOp.result = "true"

\* ----------------------------------------------------------------- C15
\* C15: a call moves through resolve revision, clone, compose up, readiness
\* wait and persist in that order, each step entered only from the previous
\* one and only when that one was not rejected; the revision it resolved
\* stays fixed for the call and is the version it persists.
C15_StepsInOrder ==
  [][ \A c \in Calls :
        /\ (pc'[c] # pc[c] =>
              <<pc[c], pc'[c]>> \in
                { <<"idle", "lookup">>, <<"idle", "clone">>, <<"lookup", "clone">>,
                  <<"clone", "up">>, <<"up", "wait">>, <<"wait", "done">>,
                  <<"lookup", "failed">>, <<"clone", "failed">>,
                  <<"up", "failed">>, <<"wait", "failed">> })
        /\ ((pc'[c] # pc[c] /\ pc'[c] \in {"clone", "up", "wait", "done"}) =>
              (failedStep'[c] = "none" /\ lv'[c] \in Hashes))
        /\ ((pc'[c] # pc[c] /\ pc'[c] = "wait") => promise'[c] = "pending")
        /\ ((pc'[c] # pc[c] /\ pc'[c] = "done") =>
              (promise'[c] = "resolved" /\ version' = lv[c]))
        /\ (lv[c] # NoVersion => lv'[c] = lv[c]) ]_vars

\* A call went through all five steps after one remote lookup.
C15_Witness ==
  /\ pc[1] = "done"
  /\ failedStep[1] = "none"
  /\ lookups = 1
  /\ lv[1] = latestVersion
  /\ version = lv[1]

\* ----------------------------------------------------------------- C16
\* C16: once the wait has produced its outcome, no probe request and no
\* status query is sent for it any more, by no tick at all.
C16_NoQueryAfterOutcome ==
  [][ \A k \in Ticks :
        (tickPc'[1][k] # tickPc[1][k] /\ tickPc'[1][k] \in {"fetch", "status"}) =>
          promise'[1] = "pending" ]_vars

\* ----------------------------------------------------------------- C17
\* C17: once the memoized latest revision holds a revision, it is never
\* written again.
C17_WriteOnce ==
  [][latestVersion # NoVersion => latestVersion' = latestVersion]_vars

\* ----------------------------------------------------------------- C18
\* C18: the elapsed time of a poll is 0 when the poll starts, is always the
\* number of ticks fired times the retry interval, and never decreases; the
\* step that advances it settles nothing, stops no timer and ends no call,
\* at whatever value it stands.
C18_ElapsedIsTicksTimesInterval ==
  /\ [](\A c \in Calls : elapsedTime[c] = TicksFired(c) * retryTime)
  /\ [][ \A c \in Calls :
            /\ elapsedTime'[c] >= elapsedTime[c]
            /\ ((pc[c] # "wait" /\ pc'[c] = "wait") => elapsedTime'[c] = 0)
            /\ (elapsedTime'[c] # elapsedTime[c] =>
                  /\ promise' = promise
                  /\ interval' = interval
                  /\ interval'[c]
                  /\ pc' = pc
                  /\ version' = version) ]_vars

\* Every tick the bound allows has fired and the wait is still pending.
C18_Witness ==
  /\ TicksFired(1) = MaxTicks
  /\ elapsedTime[1] = MaxTicks * retryTime
  /\ promise[1] = "pending"
  /\ interval[1]

====
